---- MODULE Spec2Model ----
(***************************************************************************)
(* Model of the transaction-plan execution logic of the ChatTab component  *)
(* (src/src/components/ui/tabs/ChatTab.tsx).                               *)
(*                                                                         *)
(* The component is a React function component: its state is the useState  *)
(* slots and the state of the wagmi hooks it reads.  Every handler runs to *)
(* completion on the single JavaScript thread; an `await` or a callback    *)
(* option (onSuccess) is a later step that runs with the values the        *)
(* handler captured when it was created.  One action of the model is one   *)
(* such step together with the re-render and the effects that follow it.   *)
(*                                                                         *)
(* wagmi (v2 hook names: useSendTransaction, useWaitForTransactionReceipt, *)
(* useSwitchChain): `sendTransaction` and `switchChain` are the `mutate`   *)
(* functions of a mutation.  They return at once, never throw for a wallet *)
(* failure, report the outcome through isPending / isError and call the    *)
(* onSuccess option of that call when the wallet returns a hash.           *)
(*                                                                         *)
(* Spec is the component as the rendered controls let it be used;          *)
(* SpecHandlers calls handleSubmit whatever the form's `disabled` says;    *)
(* SpecFair is the run of a user who approves and never rejects;           *)
(* SpecCodec is one call of a function of tokenUtils                       *)
(* (src/unnamed/part_000) on sampled arguments;                            *)
(* SpecProxy is one request served by the route /api/lending-agent         *)
(* (src/src/app/api/lending-agent/route.ts).                               *)
(***************************************************************************)
EXTENDS Integers, Sequences, FiniteSets, TLC

\* ------------------------------------------------------------------ bounds
\* Longest txPlan an agent response carries.
MaxLen == 3
\* Number of plans the agent returns in one run.
MaxPlans == 2
\* Number of sendTransaction calls in one run.
MaxSubmits == 2
\* Longest amount string drawn from Chars (longer samples are listed).
MaxStr == 3

\* ------------------------------------------------------- program constants
\* arbitrum.id of wagmi/chains.
ArbitrumId == 42161
\* The networks a wallet may be on: Arbitrum and one other (Ethereum mainnet).
Chains == {ArbitrumId, 1}

\* ------------------------------------------------------------------ values
\* `value` strings of a plan step: absent/empty, or not an integer literal.
Values == {"", "0.5"}
\* The TransactionData['txPlan'] element type (only `value` is read by the
\* handlers before the wallet call).
Step == [value : Values]
\* The txPlan arrays an agent response may carry; the empty array is one.
\* Sample: every length up to MaxLen, with well-formed values in all steps but
\* possibly the last (a throw at step i needs the steps before it to be sent).
TxPlans ==
    {p \in UNION {[1..n -> Step] : n \in 0..MaxLen} :
        \A i \in 1..(Len(p) - 1) : p[i].value = ""}
\* useState<TransactionData | null>(null): null is the plan with id 0.
\* `id` stands for the identity of the object setPendingTransaction stored.
NoPlan == [id |-> 0, txPlan |-> <<>>]
\* useState<string | null>(null): null is hash 0; hash h > 0 is the hash the
\* wallet returned for the h-th sendTransaction call.
NoHash == 0
\* No sendTransaction call is pending: nothing holds captured values.
NoCall == [plan |-> NoPlan, idx |-> 0]
\* No instruction has made handleSubmit request a network switch.
NoGuard == [request |-> "none", plan |-> 0]

VARIABLES
    inputValue,          \* useState('')
    isLoading,           \* useState(false)
    inFlight,            \* history: fetches of handleSubmit not settled yet
    pendingTransaction,  \* useState<TransactionData | null>(null)
    currentTxIndex,      \* useState(0)
    txHash,              \* useState<string | null>(null)
    isConnected,         \* useAccount().isConnected
    chainId,             \* useChainId()
    isChainSwitching,    \* useSwitchChain().isPending
    txStatus,            \* useSendTransaction() mutation status
    txCall,              \* values the pending sendTransaction call captured
    confirmed,           \* hashes whose receipt useWaitForTransactionReceipt got
    submitLog,           \* history: every sendTransaction call, in order
    nPlans,              \* history: number of plans accepted so far
    rejected,            \* history: plans rejected before any step was sent
    guard,               \* history: the switch request the last instruction
                         \* made and the plan accepted from that instruction
    codec,               \* the call of a tokenUtils function: arguments, result
    proxy,               \* the request the /api/lending-agent route is serving
    lastEvent            \* history: the step just taken and the state before it

vars == <<inputValue, isLoading, inFlight, pendingTransaction, currentTxIndex, txHash,
          isConnected, chainId, isChainSwitching, txStatus, txCall, confirmed,
          submitLog, nPlans, rejected, guard, lastEvent, codec, proxy>>
\* The state of the ChatTab component and its history.
chatVars == <<inputValue, isLoading, inFlight, pendingTransaction, currentTxIndex, txHash,
              isConnected, chainId, isChainSwitching, txStatus, txCall,
              confirmed, submitLog, nPlans, rejected, guard, lastEvent>>

\* The state of the wallet-integration hooks other than the transaction ones.
walletVars == <<isConnected, chainId, isChainSwitching>>
\* The chat form.
formVars == <<inputValue, isLoading, inFlight>>

\* isPending of useSendTransaction.
isTxPending == txStatus = "pending"
\* isError of useSendTransaction.
isTxError == txStatus = "error"

\* isSuccess of useWaitForTransactionReceipt({hash}): the query is keyed by the
\* hash, disabled without one, and succeeds when the receipt is fetched.
IsTxConfirmed(h, conf) == h # NoHash /\ h \in conf

\* The history record of a step: its kind, the ExecutionState before it and
\* what the confirmation effect did in it ("none": did not run or did nothing,
\* "more": reported a confirmation and kept the plan, "completed": cleared it).
Event(type, eff) ==
    [type |-> type, plan |-> pendingTransaction, step |-> currentTxIndex,
     hash |-> txHash, effect |-> eff]

\* --------------------------------------------------------------- the effect
\* useEffect(..., [isTxConfirmed, txHash, pendingTransaction, currentTxIndex]):
\* the state after the effect that follows a render with the values given.
\* It runs only when one of its dependencies differs from the last render.
ConfirmationEffect(pt, idx, h, conf) ==
    LET deps == <<IsTxConfirmed(h, conf), h, pt, idx>>
        last == <<IsTxConfirmed(txHash, confirmed), txHash,
                  pendingTransaction, currentTxIndex>>
    IN  IF deps # last /\ IsTxConfirmed(h, conf) /\ h # NoHash /\ pt # NoPlan
        THEN IF idx + 1 < Len(pt.txPlan)
             THEN [pt |-> pt, idx |-> idx, h |-> h, effect |-> "more"]
             ELSE [pt |-> NoPlan, idx |-> 0, h |-> NoHash,
                   effect |-> "completed"]
        ELSE [pt |-> pt, idx |-> idx, h |-> h, effect |-> "none"]

\* A step's state updates (React applies them in one render), then the effect.
Commit(type, pt, idx, h, conf) ==
    LET e == ConfirmationEffect(pt, idx, h, conf)
    IN  /\ pendingTransaction' = e.pt
        /\ currentTxIndex' = e.idx
        /\ txHash' = e.h
        /\ confirmed' = conf
        /\ lastEvent' = Event(type, e.effect)
        /\ UNCHANGED <<codec, proxy>>

\* A step that leaves the ExecutionState alone: no dependency of the effect
\* changes, so it does not run.
NoCommit(type) ==
    /\ UNCHANGED <<pendingTransaction, currentTxIndex, txHash, confirmed>>
    /\ lastEvent' = Event(type, "none")
    /\ UNCHANGED <<codec, proxy>>

\* ------------------------------------------------- the token amount codec
\* tokenUtils (src/unnamed/part_000).  A string is the sequence of its
\* characters.  A BigInt is the sequence of its decimal digits, most
\* significant first, without leading zeros (<<0>> is zero); the amounts of
\* the model are not negative.

\* The decimal digit characters, by value.
DigitChars == <<"0", "1", "2", "3", "4", "5", "6", "7", "8", "9">>
IsDigit(c) == \E v \in 1..10 : DigitChars[v] = c
DigitOf(c) == (CHOOSE v \in 1..10 : DigitChars[v] = c) - 1
CharOf(n) == DigitChars[n + 1]
\* /^\d+$/.test(s)
MatchesDigits(s) == s # <<>> /\ \A i \in 1..Len(s) : IsDigit(s[i])

Max(a, b) == IF a >= b THEN a ELSE b
Min(a, b) == IF a <= b THEN a ELSE b
Zeros(n) == [i \in 1..n |-> 0]

\* The canonical digit sequence of the number a digit sequence denotes.
Strip(b) ==
    IF \A i \in 1..Len(b) : b[i] = 0 THEN <<0>>
    ELSE LET first == CHOOSE i \in 1..Len(b) :
                          b[i] # 0 /\ \A j \in 1..(i - 1) : b[j] = 0
         IN  SubSeq(b, first, Len(b))
PadLeft(b, n) == Zeros(n - Len(b)) \o b

\* a + b on BigInt: digit by digit, the carry into position i being 1 when a
\* position to its right overflows and all positions in between hold 9.
Add(a, b) ==
    LET n == Max(Len(a), Len(b)) + 1
        A == PadLeft(a, n)
        B == PadLeft(b, n)
        carry(i) ==
            IF \E j \in (i + 1)..n :
                   /\ A[j] + B[j] >= 10
                   /\ \A k \in (i + 1)..(j - 1) : A[k] + B[k] = 9
            THEN 1 ELSE 0
    IN  Strip([i \in 1..n |-> (A[i] + B[i] + carry(i)) % 10])

\* a < b on BigInt.
Less(a, b) ==
    \/ Len(a) < Len(b)
    \/ /\ Len(a) = Len(b)
       /\ \E i \in 1..Len(a) : /\ a[i] < b[i]
                               /\ \A j \in 1..(i - 1) : a[j] = b[j]

\* a - b on BigInt, for a >= b: digit by digit, position i lending 1 when a
\* position to its right is short and all positions in between are equal.
Sub(a, b) ==
    LET n == Len(a)
        B == PadLeft(b, n)
        borrow(i) ==
            IF \E j \in (i + 1)..n :
                   /\ a[j] < B[j]
                   /\ \A k \in (i + 1)..(j - 1) : a[k] = B[k]
            THEN 1 ELSE 0
    IN  Strip([i \in 1..n |-> (a[i] - B[i] - borrow(i) + 10) % 10])

\* a * k for a digit k, by halving k.
RECURSIVE Times(_, _)
Times(a, k) ==
    IF k = 0 THEN <<0>>
    ELSE IF k = 1 THEN a
    ELSE Add(Times(a, k \div 2), Times(a, k - k \div 2))

\* The sum of the partial products of a by the digits lo..hi of b, each
\* shifted to the place of its digit, by halving the range.
RECURSIVE PartialProducts(_, _, _, _)
PartialProducts(a, b, lo, hi) ==
    IF lo = hi THEN Strip(Times(a, b[lo]) \o Zeros(Len(b) - lo))
    ELSE LET mid == (lo + hi) \div 2
         IN  Add(PartialProducts(a, b, lo, mid),
                 PartialProducts(a, b, mid + 1, hi))
\* a * b on BigInt.
Mul(a, b) == PartialProducts(a, b, 1, Len(b))

\* a ** e on BigInt, by halving e.
RECURSIVE Pow(_, _)
Pow(a, e) ==
    IF e = 0 THEN <<1>>
    ELSE IF e = 1 THEN a
    ELSE Mul(Pow(a, e \div 2), Pow(a, e - e \div 2))

\* How many times b goes into cur (at most 9 in a long division), and the rest.
RECURSIVE SubCount(_, _)
SubCount(cur, b) ==
    IF Less(cur, b) THEN [k |-> 0, r |-> cur]
    ELSE LET x == SubCount(Sub(cur, b), b)
         IN  [k |-> x.k + 1, r |-> x.r]

\* Long division of a by b from digit i on: quotient and remainder.
RECURSIVE DivFrom(_, _, _, _, _)
DivFrom(a, b, i, q, rem) ==
    IF i > Len(a) THEN [q |-> Strip(q), r |-> rem]
    ELSE LET x == SubCount(Strip(rem \o <<a[i]>>), b)
         IN  DivFrom(a, b, i + 1, q \o <<x.k>>, x.r)
\* a / b and a % b on BigInt.
Div(a, b) == DivFrom(a, b, 1, <<>>, <<0>>).q
Mod(a, b) == DivFrom(a, b, 1, <<>>, <<0>>).r

\* A call that threw returns no value.
Throw == [ok |-> FALSE, val |-> <<>>]
Return(v) == [ok |-> TRUE, val |-> v]

\* BigInt(s) for a string of the characters of Chars: the empty string is 0n,
\* a string of decimal digits is its value, anything else is a SyntaxError.
BigIntOf(s) ==
    IF s = <<>> THEN Return(<<0>>)
    ELSE IF MatchesDigits(s)
    THEN Return(Strip([i \in 1..Len(s) |-> DigitOf(s[i])]))
    ELSE Throw
\* b.toString()
BigIntToString(b) == [i \in 1..Len(b) |-> CharOf(b[i])]

\* s.split('.')
RECURSIVE Split(_)
Split(s) ==
    IF \A i \in 1..Len(s) : s[i] # "."
    THEN <<s>>
    ELSE LET i == CHOOSE k \in 1..Len(s) :
                      s[k] = "." /\ \A j \in 1..(k - 1) : s[j] # "."
         IN  <<SubSeq(s, 1, i - 1)>> \o Split(SubSeq(s, i + 1, Len(s)))
\* s.padEnd(n, '0') and s.padStart(n, '0')
PadEnd(s, n) == s \o [i \in 1..Max(0, n - Len(s)) |-> "0"]
PadStart(s, n) == [i \in 1..Max(0, n - Len(s)) |-> "0"] \o s
\* s.slice(0, n) without the cut: the mutant of Slice.
Slice_Whole(s, n) == s
\* s.slice(0, n)
Slice(s, n) == SubSeq(s, 1, Min(n, Len(s)))
\* s.replace(/0+$/, '')
RECURSIVE StripTrailingZeros(_)
StripTrailingZeros(s) ==
    IF s # <<>> /\ s[Len(s)] = "0"
    THEN StripTrailingZeros(SubSeq(s, 1, Len(s) - 1))
    ELSE s

\* 10 ** d is a double: every power of ten up to this exponent is one exactly.
ExactPow10Limit == 22
\* BigInt(10 ** decimals): 10^23 is not a double and lies half-way between
\* two of them; the engine's pow yields one of the two.
Pow10Number(d) ==
    IF d <= ExactPow10Limit
    THEN {<<1>> \o Zeros(d)}
    ELSE {<<9,9,9,9,9,9,9,9,9,9,9,9,9,9,9,9,1,6,1,1,3,9,2>>,
          <<1,0,0,0,0,0,0,0,0,0,0,0,0,0,0,0,0,8,3,8,8,6,0,8>>}

\* formatTokenAmount from its line 56 on, for the BigInt amount and the divisor
\* its line 54 computed.
formatTokenAmount(amountBigInt, decimals, divisor) ==
    LET wholePart == Div(amountBigInt, divisor)
        fractionalPart == Mod(amountBigInt, divisor)
        fractionalStr ==
            StripTrailingZeros(PadStart(BigIntToString(fractionalPart), decimals))
    IN  IF fractionalPart = <<0>>
        THEN BigIntToString(wholePart)
        ELSE BigIntToString(wholePart) \o <<".">> \o fractionalStr

\* formatTokenAmount called with a string: BigInt(amount) first.
formatTokenAmountOfString(amount, decimals, divisor) ==
    LET amountBigInt == BigIntOf(amount)
    IN  IF amountBigInt.ok
        THEN Return(formatTokenAmount(amountBigInt.val, decimals, divisor))
        ELSE Throw

\* parseTokenAmount.
parseTokenAmount(amount, decimals) ==
    LET parts == Split(amount)
        wholePart == parts[1]
        fractionalPart == IF Len(parts) >= 2 THEN parts[2] ELSE <<>>
        paddedFractional == Slice(PadEnd(fractionalPart, decimals), decimals)
        whole == BigIntOf(wholePart)
        fractionalBigInt == BigIntOf(paddedFractional)
    IN  IF whole.ok /\ fractionalBigInt.ok
        THEN Return(Add(Mul(whole.val, Pow(<<1, 0>>, decimals)),
                        fractionalBigInt.val))
        ELSE Throw

\* isValidTokenAmount(amount, decimals): nothing in its try block throws on a
\* string, so the catch is not reached.
isValidTokenAmount(amount, decimals) ==
    LET parts == Split(amount)
        wholePart == parts[1]
        fractionalPart == parts[2]
    IN  /\ MatchesDigits(wholePart)
        /\ Len(parts) >= 2 => /\ MatchesDigits(fractionalPart)
                              /\ Len(fractionalPart) <= decimals

\* s.toUpperCase() and s.charAt(0).toUpperCase() + s.slice(1) on the letters
\* of the samples.
LowerCase == <<"a", "b", "c", "d", "e", "f", "h", "i", "l", "o", "p", "r",
               "s", "t", "u", "w", "y">>
UpperCase == <<"A", "B", "C", "D", "E", "F", "H", "I", "L", "O", "P", "R",
               "S", "T", "U", "W", "Y">>
UpperOf(c) ==
    IF \E i \in 1..Len(LowerCase) : LowerCase[i] = c
    THEN UpperCase[CHOOSE i \in 1..Len(LowerCase) : LowerCase[i] = c]
    ELSE c
toUpperCase(s) == [i \in 1..Len(s) |-> UpperOf(s[i])]
Capitalize(s) == [i \in 1..Len(s) |-> IF i = 1 THEN UpperOf(s[i]) ELSE s[i]]

\* ARBITRUM_TOKENS, by key.
ARBITRUM_TOKENS ==
    {[symbol |-> <<"E", "T", "H">>, decimals |-> 18],
     [symbol |-> <<"U", "S", "D", "C">>, decimals |-> 6],
     [symbol |-> <<"U", "S", "D", "T">>, decimals |-> 6],
     [symbol |-> <<"W", "E", "T", "H">>, decimals |-> 18],
     [symbol |-> <<"A", "R", "B">>, decimals |-> 18]}
getTokenInfo(symbol) ==
    LET upperSymbol == toUpperCase(symbol)
    IN  IF \E t \in ARBITRUM_TOKENS : t.symbol = upperSymbol
        THEN CHOOSE t \in ARBITRUM_TOKENS : t.symbol = upperSymbol
        ELSE [symbol |-> upperSymbol, decimals |-> 18]

\* The number of decimal digits a string starts with.
LeadingDigits(s) ==
    CHOOSE n \in 0..Len(s) :
        /\ \A i \in 1..n : IsDigit(s[i])
        /\ n = Len(s) \/ ~IsDigit(s[n + 1])
\* parseFloat(s) for a string of digits, '.' and letters that start neither
\* an exponent nor "Infinity": the longest prefix that is a decimal literal,
\* as the exact decimal it denotes (whole digits as a BigInt, fractional
\* digits as written); NaN when no digit is in it.  The rounding to a double
\* is applied where the number is compared.
parseFloat(s) ==
    LET n == LeadingDigits(s)
        rest == SubSeq(s, n + 1, Len(s))
        m == IF rest # <<>> /\ rest[1] = "."
             THEN LeadingDigits(Tail(rest)) ELSE 0
    IN  IF n + m = 0
        THEN [nan |-> TRUE, whole |-> <<0>>, frac |-> <<>>]
        ELSE [nan |-> FALSE,
              whole |-> Strip([i \in 1..n |-> DigitOf(s[i])]),
              frac |-> [i \in 1..m |-> DigitOf(s[n + 1 + i])]]

\* 1000000 as a BigInt.
Million == <<1, 0, 0, 0, 0, 0, 0>>
\* The fractional digits of 2^-34, half the distance from the double 1000000
\* to the next one: a decimal up to 1000000 + 2^-34 is read as 1000000
\* (round to nearest, ties to the even mantissa of 1000000).
HalfUlpOfMillion ==
    <<0, 0, 0, 0, 0, 0, 0, 0, 0, 0, 5, 8, 2, 0, 7, 6, 6, 0, 9, 1, 3, 4, 6, 7,
      4, 0, 7, 2, 2, 6, 5, 6, 2, 5>>
\* numericAmount > 1000000, for the double parseFloat returned.
ExceedsMillion(x) ==
    LET n == Max(Len(x.frac), Len(HalfUlpOfMillion))
        frac == Strip(x.frac \o Zeros(n - Len(x.frac)))
        half == Strip(HalfUlpOfMillion \o Zeros(n - Len(HalfUlpOfMillion)))
    IN  /\ ~x.nan
        /\ \/ Less(Million, x.whole)
           \/ x.whole = Million /\ Less(half, frac)

\* formatTransactionData(data); the divisor of its formatTokenAmount call is
\* exact, the decimals of a token being at most 18.
formatTransactionData(data) ==
    LET tokenInfo == getTokenInfo(data.tokenName)
        numericAmount == parseFloat(data.amount)
        whole == BigIntOf(Split(data.amount)[1])
    IN  IF ExceedsMillion(numericAmount)
        THEN IF whole.ok
             THEN Return([data EXCEPT !.amount =
                              formatTokenAmount(
                                  whole.val, tokenInfo.decimals,
                                  <<1>> \o Zeros(tokenInfo.decimals))])
             ELSE Throw
        ELSE Return(data)

\* createTransactionSummary(data), for data formatTransactionData accepts.
createTransactionSummary(data) ==
    LET tokenInfo == getTokenInfo(data.tokenName)
        formattedData == formatTransactionData(data)
    IN  IF formattedData.ok
        THEN Return(Capitalize(formattedData.val.action) \o <<" ">>
                    \o formattedData.val.amount \o <<" ">>
                    \o tokenInfo.symbol)
        ELSE Throw

\* The characters amount strings are drawn from: three digits, the separator
\* and a letter.
Chars == {"0", "1", "7", ".", "a"}
\* The amount strings of the calls: every string of at most MaxStr characters
\* and the longer ones the specification names (10^23 is the last).
Amounts ==
    UNION {[1..n -> Chars] : n \in 0..MaxStr}
    \cup {<<"1", "a", ".", "2">>,
          <<"1", ".", "1", "7">>,
          <<"1", ".", "7", ".", "1">>,
          <<"1", "0", "0", "0", "0", "0">>,
          <<"1", "2", ".", "3", "4", "5", "6", "7", "8", "9">>,
          BigIntToString(<<1>> \o Zeros(23))}
\* The `decimals` of the calls: 6 and 18 are those of ARBITRUM_TOKENS.
Decimals == {0, 1, 2, 6, 18, 22, 23}

\* No tokenUtils function has been called.
NoCodecCall ==
    [op |-> "none", amount |-> <<>>, decimals |-> 0, divisor |-> <<0>>,
     tokenName |-> <<>>, action |-> <<>>, result |-> Throw]
\* The arguments of a call that is about to be made.
CodecInputs ==
    [op : {"input"}, amount : Amounts, decimals : Decimals,
     divisor : {<<0>>}, tokenName : {<<>>}, action : {<<>>},
     result : {Throw}]

\* The amounts of the agent's txPreview: around the threshold of
\* formatTransactionData, in display units and in base units, well-formed
\* and not.
PreviewAmounts ==
    {<<>>, <<"a">>, <<"0", ".", "1">>,
     BigIntToString(<<9, 9, 9, 9, 9, 9>>),
     BigIntToString(Million),
     BigIntToString(Million) \o <<".", "5">>,
     BigIntToString(Million) \o <<".">> \o BigIntToString(Zeros(10) \o <<1>>),
     BigIntToString(Million) \o <<".">> \o BigIntToString(Zeros(9) \o <<1>>),
     BigIntToString(<<1, 0, 0, 0, 0, 0, 1>>),
     BigIntToString(<<2>> \o Zeros(6)),
     BigIntToString(<<2>> \o Zeros(6)) \o <<"a">>,
     BigIntToString(<<2>> \o Zeros(12)),
     BigIntToString(<<1, 5>> \o Zeros(17)),
     BigIntToString(<<1>> \o Zeros(18))}
\* The token names and the actions of the agent's txPreview.
TokenNames ==
    {<<"U", "S", "D", "C">>, <<"u", "s", "d", "c">>, <<"E", "T", "H">>,
     <<"D", "A", "I">>}
PreviewActions ==
    {<<"s", "u", "p", "p", "l", "y">>, <<"b", "o", "r", "r", "o", "w">>}
\* The txPreview of an agent response, about to be made a TransactionData.
PreviewInputs ==
    [op : {"preview"}, amount : PreviewAmounts, decimals : {0},
     divisor : {<<0>>}, tokenName : TokenNames, action : PreviewActions,
     result : {Throw}]
\* rawTransactionData of handleSubmit for the txPreview of a call; the chain
\* id and the plan are the same in every sample.
RawTransactionData(c) ==
    [tokenName |-> c.tokenName, amount |-> c.amount, action |-> c.action,
     chainId |-> <<"4", "2", "1", "6", "1">>, txPlan |-> <<[value |-> ""]>>]

\* ------------------------------------------- the route /api/lending-agent
\* The values a field of the request body is drawn from: absent, the empty
\* string and two texts.
Instructions == {"undefined", "", "supply 1 USDC", "show my positions"}
UserAddresses == {"undefined", "", "0xA", "0xB"}
\* The request bodies: text that is not JSON, the JSON values null and 5, and
\* the objects made of the two fields.
RequestBodies ==
    [kind : {"invalid", "null", "number"}, instruction : {"undefined"},
     userAddress : {"undefined"}]
    \cup [kind : {"object"}, instruction : Instructions,
          userAddress : UserAddresses]
\* !v for a field of the body.
Falsy(v) == v \in {"undefined", ""}

\* The bodies of the external agent's answers: text that is not JSON, and
\* JSON values, each denoted by a name.
AgentBodies ==
    [isJson : {FALSE}, value : {"<html>"}]
    \cup [isJson : {TRUE}, value : {"null", "task completed", "task failed"}]
\* How the fetch of the external agent settles: it rejects, or it resolves
\* with a status and a body.
AgentOutcomes ==
    [settled : {"rejected"}, status : {0}, body : {[isJson |-> FALSE,
                                                    value |-> ""]}]
    \cup [settled : {"fulfilled"}, status : {200, 404, 500},
          body : AgentBodies]
NoOutcome ==
    [settled |-> "none", status |-> 0, body |-> [isJson |-> FALSE, value |-> ""]]
\* await response.json(): the JSON value of the body, or a SyntaxError.
responseJson(body) ==
    IF body.isJson THEN [ok |-> TRUE, val |-> body.value]
    ELSE [ok |-> FALSE, val |-> ""]

\* The responses of the route.
NoResponse == [status |-> 0, body |-> ""]
MissingResponse ==
    [status |-> 400, body |-> "Missing instruction or userAddress"]
FailedResponse ==
    [status |-> 500, body |-> "Failed to process lending agent request"]
\* NextResponse.json(data): status 200, the body the JSON value.
JsonResponse(data) == [status |-> 200, body |-> data]

\* No request is being served.
NoRequest ==
    [pc |-> "none", body |-> [kind |-> "invalid", instruction |-> "undefined",
                              userAddress |-> "undefined"],
     called |-> FALSE, agent |-> NoOutcome, response |-> NoResponse]
\* A request has arrived at POST.
ProxyInputs ==
    [pc : {"start"}, body : RequestBodies, called : {FALSE},
     agent : {NoOutcome}, response : {NoResponse}]

\* ------------------------------------------------------------------- Init
InitChat ==
    /\ inputValue = ""
    /\ isLoading = FALSE
    /\ inFlight = 0
    /\ pendingTransaction = NoPlan
    /\ currentTxIndex = 0
    /\ txHash = NoHash
    /\ isConnected \in BOOLEAN
    /\ chainId \in Chains
    /\ isChainSwitching = FALSE
    /\ txStatus = "idle"
    /\ txCall = NoCall
    /\ confirmed = {}
    /\ submitLog = <<>>
    /\ nPlans = 0
    /\ rejected = {}
    /\ guard = NoGuard
    /\ lastEvent = [type |-> "init", plan |-> NoPlan, step |-> 0, hash |-> NoHash,
                    effect |-> "none"]

\* The component mounted; no tokenUtils function has been called.
Init == InitChat /\ codec = NoCodecCall /\ proxy = NoRequest

\* ------------------------------------------------------------ the chat form
\* `disabled` of the input and of the Send button.
InputEnabled == ~(isLoading \/ ~isConnected \/ chainId # ArbitrumId)
FormSubmittable ==
    ~(inputValue = "" \/ isLoading \/ ~isConnected \/ chainId # ArbitrumId)

\* onChange of the input.
TypeInput ==
    /\ InputEnabled
    /\ inputValue = ""
    /\ inputValue' = "Supply 0.1 USDC"
    /\ UNCHANGED <<isLoading, inFlight, walletVars, txStatus, txCall,
                   submitLog, nPlans, rejected, guard>>
    /\ NoCommit("type")

\* handleSubmit without its `if (!isConnected) { ...; return; }`.
handleSubmit_NoConnectionGuard ==
    IF inputValue = "" \/ isLoading
    THEN /\ UNCHANGED <<formVars, walletVars, guard>>
         /\ UNCHANGED <<txStatus, txCall, submitLog, nPlans, rejected>>
         /\ NoCommit("submitIgnored")
    ELSE /\ isChainSwitching' = (isChainSwitching \/ chainId # ArbitrumId)
         /\ guard' = IF chainId # ArbitrumId
                     THEN [request |-> "pending", plan |-> 0]
                     ELSE NoGuard
         /\ inputValue' = ""
         /\ isLoading' = TRUE
         /\ inFlight' = inFlight + 1
         /\ UNCHANGED <<isConnected, chainId>>
         /\ UNCHANGED <<txStatus, txCall, submitLog, nPlans, rejected>>
         /\ NoCommit(IF chainId # ArbitrumId THEN "switchAndInstruct"
                     ELSE "instruct")

\* handleSubmit up to its `await fetch(...)`.
handleSubmit ==
    IF inputValue = "" \/ isLoading
    THEN /\ UNCHANGED <<formVars, walletVars, guard>>
         /\ UNCHANGED <<txStatus, txCall, submitLog, nPlans, rejected>>
         /\ NoCommit("submitIgnored")
    ELSE IF ~isConnected
    THEN /\ UNCHANGED <<formVars, walletVars, guard>>
         /\ UNCHANGED <<txStatus, txCall, submitLog, nPlans, rejected>>
         /\ NoCommit("notConnected")
    ELSE /\ isChainSwitching' = (isChainSwitching \/ chainId # ArbitrumId)
         /\ guard' = IF chainId # ArbitrumId
                     THEN [request |-> "pending", plan |-> 0]
                     ELSE NoGuard
         /\ inputValue' = ""
         /\ isLoading' = TRUE
         /\ inFlight' = inFlight + 1
         /\ UNCHANGED <<isConnected, chainId>>
         /\ UNCHANGED <<txStatus, txCall, submitLog, nPlans, rejected>>
         /\ NoCommit(IF chainId # ArbitrumId THEN "switchAndInstruct"
                     ELSE "instruct")

\* onSubmit of the form.
SubmitForm == FormSubmittable /\ handleSubmit

\* What the proxy answers: response.ok, result.success with status.state
\* 'completed', and the first artifact's data.
Responses ==
    [ok : {FALSE}, success : {FALSE}, artifact : {"none"}, txPlan : {<<>>}]
    \cup [ok : {TRUE}, success : BOOLEAN, artifact : {"none", "positions"},
          txPlan : {<<>>}]
    \cup [ok : {TRUE}, success : {TRUE}, artifact : {"tx"}, txPlan : TxPlans]

\* The plan handleSubmit stores: formatTransactionData(rawTransactionData).
AcceptedPlan(r) == [id |-> nPlans + 1, txPlan |-> r.txPlan]

\* handleSubmit from the return of `await fetch(...)` to its end, its catch
\* block discarding the pending plan.
handleSubmitResponse_FailureClearsPlan(r) ==
    /\ inFlight > 0
    /\ inFlight' = inFlight - 1
    /\ isLoading' = FALSE
    /\ UNCHANGED <<inputValue, walletVars, txStatus, txCall, submitLog,
                   rejected>>
    /\ IF ~r.ok
       THEN /\ Commit("agentFailed", NoPlan, 0, txHash, confirmed)
            /\ UNCHANGED <<nPlans, guard>>
       ELSE IF r.success /\ r.artifact = "tx"
       THEN /\ nPlans < MaxPlans
            /\ nPlans' = nPlans + 1
            /\ guard' = IF guard.request = "none" THEN guard
                        ELSE [guard EXCEPT !.plan = nPlans + 1]
            /\ Commit("planReceived", AcceptedPlan(r), 0, txHash, confirmed)
       ELSE /\ NoCommit("agentText")
            /\ UNCHANGED <<nPlans, guard>>

\* handleSubmit from the return of `await fetch(...)` to its end, without the
\* finally block: setIsLoading(false) is reached only when nothing was thrown.
handleSubmitResponse_NoFinally(r) ==
    /\ inFlight > 0
    /\ inFlight' = inFlight - 1
    /\ isLoading' = (isLoading /\ ~r.ok)
    /\ UNCHANGED <<inputValue, walletVars, txStatus, txCall, submitLog,
                   rejected>>
    /\ IF ~r.ok
       THEN /\ NoCommit("agentFailed")
            /\ UNCHANGED <<nPlans, guard>>
       ELSE IF r.success /\ r.artifact = "tx"
       THEN /\ nPlans < MaxPlans
            /\ nPlans' = nPlans + 1
            /\ guard' = IF guard.request = "none" THEN guard
                        ELSE [guard EXCEPT !.plan = nPlans + 1]
            /\ Commit("planReceived", AcceptedPlan(r), 0, txHash, confirmed)
       ELSE /\ NoCommit("agentText")
            /\ UNCHANGED <<nPlans, guard>>

\* handleSubmit from the return of `await fetch(...)` to its end.
handleSubmitResponse(r) ==
    /\ inFlight > 0
    /\ inFlight' = inFlight - 1
    /\ isLoading' = FALSE
    /\ UNCHANGED <<inputValue, walletVars, txStatus, txCall, submitLog,
                   rejected>>
    /\ IF ~r.ok
       THEN /\ NoCommit("agentFailed")
            /\ UNCHANGED <<nPlans, guard>>
       ELSE IF r.success /\ r.artifact = "tx"
       THEN /\ nPlans < MaxPlans
            /\ nPlans' = nPlans + 1
            /\ guard' = IF guard.request = "none" THEN guard
                        ELSE [guard EXCEPT !.plan = nPlans + 1]
            /\ Commit("planReceived", AcceptedPlan(r), 0, txHash, confirmed)
       ELSE /\ NoCommit("agentText")
            /\ UNCHANGED <<nPlans, guard>>

AgentResponds == \E r \in Responses : handleSubmitResponse(r)

\* ------------------------------------------------- the transaction preview
\* <TransactionPreview> is rendered while a plan is pending; its two buttons
\* are disabled while the wallet call is pending (isLoading={isTxPending}).
PreviewButtonsEnabled == pendingTransaction # NoPlan /\ ~isTxPending

\* BigInt(currentTx.value || '0') throws a SyntaxError unless the string is an
\* integer literal.
BigIntThrows(value) ==
    LET text == IF value = "" THEN "0" ELSE value
    IN  text \notin {"0"}

\* The entry a sendTransaction call adds to the history.
SubmitEntry(pt, idx) == [plan |-> pt.id, step |-> idx, status |-> "pending"]

\* handleTransactionApprove without its opening guard: the step read past the
\* end of the plan is undefined, `currentTx.to` throws inside the try block
\* and the catch block discards the plan.
handleTransactionApprove_NoGuard ==
    /\ UNCHANGED <<formVars, walletVars, nPlans, rejected, guard>>
    /\ IF pendingTransaction = NoPlan
          \/ currentTxIndex >= Len(pendingTransaction.txPlan)
       THEN /\ UNCHANGED <<txStatus, txCall, submitLog>>
            /\ Commit("approveThrew", NoPlan, 0, txHash, confirmed)
       ELSE LET currentTx == pendingTransaction.txPlan[currentTxIndex + 1]
            IN  IF BigIntThrows(currentTx.value)
                THEN /\ UNCHANGED <<txStatus, txCall, submitLog>>
                     /\ Commit("approveThrew", NoPlan, 0, txHash, confirmed)
                ELSE /\ Len(submitLog) < MaxSubmits
                     /\ txStatus' = "pending"
                     /\ txCall' = [plan |-> pendingTransaction,
                                   idx |-> currentTxIndex]
                     /\ submitLog' =
                          Append(submitLog,
                                 SubmitEntry(pendingTransaction, currentTxIndex))
                     /\ NoCommit("submit")

\* handleTransactionApprove up to the return of sendTransaction (a mutate:
\* it returns before the wallet answers).
handleTransactionApprove ==
    /\ UNCHANGED <<formVars, walletVars, nPlans, rejected, guard>>
    /\ IF pendingTransaction = NoPlan
          \/ currentTxIndex >= Len(pendingTransaction.txPlan)
       THEN /\ UNCHANGED <<txStatus, txCall, submitLog>>
            /\ NoCommit("approveIgnored")
       ELSE LET currentTx == pendingTransaction.txPlan[currentTxIndex + 1]
            IN  IF BigIntThrows(currentTx.value)
                THEN /\ UNCHANGED <<txStatus, txCall, submitLog>>
                     /\ Commit("approveThrew", NoPlan, 0, txHash, confirmed)
                ELSE /\ Len(submitLog) < MaxSubmits
                     /\ txStatus' = "pending"
                     /\ txCall' = [plan |-> pendingTransaction,
                                   idx |-> currentTxIndex]
                     /\ submitLog' =
                          Append(submitLog,
                                 SubmitEntry(pendingTransaction, currentTxIndex))
                     /\ NoCommit("submit")

\* onClick of "Approve & Sign".
ClickApprove == PreviewButtonsEnabled /\ handleTransactionApprove

\* The index onSuccess stores, from the values its handler captured.
NextIndex(call) ==
    IF call.idx + 1 < Len(call.plan.txPlan) THEN call.idx + 1
    ELSE currentTxIndex

\* The wallet returns a hash: the mutation succeeds and the onSuccess option
\* of the pending call runs.  The hash is the number of the call.
sendTransactionOnSuccess ==
    /\ isTxPending
    /\ isConnected
    /\ txStatus' = "success"
    /\ submitLog' = [submitLog EXCEPT ![Len(submitLog)].status = "sent"]
    /\ txCall' = NoCall
    /\ UNCHANGED <<formVars, walletVars, nPlans, rejected, guard>>
    /\ Commit("hash", pendingTransaction, NextIndex(txCall), Len(submitLog),
              confirmed)

\* The wallet declines or fails: the mutation records the error; nothing
\* is thrown into handleTransactionApprove, whose `await` ended long ago.
sendTransactionOnError ==
    /\ isTxPending
    /\ txStatus' = "error"
    /\ submitLog' = [submitLog EXCEPT ![Len(submitLog)].status = "failed"]
    /\ txCall' = NoCall
    /\ UNCHANGED <<formVars, walletVars, nPlans, rejected, guard>>
    /\ NoCommit("walletError")

\* useWaitForTransactionReceipt gets the receipt of the hash it watches.
ReceiptObserved ==
    /\ txHash # NoHash
    /\ txHash \notin confirmed
    /\ UNCHANGED <<formVars, walletVars, txStatus, txCall, submitLog, nPlans,
                   rejected, guard>>
    /\ Commit("confirm", pendingTransaction, currentTxIndex, txHash,
              confirmed \cup {txHash})

\* History: the plan a reject discards, when no step of it was submitted and
\* its step index is 0 (the plan was awaiting the approval of step 0).
RejectedFresh ==
    IF /\ currentTxIndex = 0
       /\ \A k \in 1..Len(submitLog) : submitLog[k].plan # pendingTransaction.id
    THEN {pendingTransaction.id}
    ELSE {}

\* handleTransactionReject without its setPendingTransaction(null).
handleTransactionReject_KeepsPlan ==
    /\ UNCHANGED <<formVars, walletVars, txStatus, txCall, submitLog, nPlans,
                   guard>>
    /\ rejected' = rejected \cup RejectedFresh
    /\ Commit("reject", pendingTransaction, 0, txHash, confirmed)

\* handleTransactionReject.
handleTransactionReject ==
    /\ UNCHANGED <<formVars, walletVars, txStatus, txCall, submitLog, nPlans,
                   guard>>
    /\ rejected' = rejected \cup RejectedFresh
    /\ Commit("reject", NoPlan, 0, txHash, confirmed)

\* onClick of "Reject".
ClickReject == PreviewButtonsEnabled /\ handleTransactionReject

\* ------------------------------------------------------------- the wallet
\* "Connect MetaMask" / "Connect Coinbase" of the banner, when it succeeds.
Connect ==
    /\ ~isConnected
    /\ isConnected' = TRUE
    /\ UNCHANGED <<formVars, chainId, isChainSwitching, txStatus, txCall,
                   submitLog, nPlans, rejected, guard>>
    /\ NoCommit("wallet")

\* The user disconnects the wallet (Wallet tab or the wallet itself).
Disconnect ==
    /\ isConnected
    /\ isConnected' = FALSE
    /\ UNCHANGED <<formVars, chainId, isChainSwitching, txStatus, txCall,
                   submitLog, nPlans, rejected, guard>>
    /\ NoCommit("wallet")

\* "Switch to Arbitrum" of the banner: switchChain({ chainId: arbitrum.id }).
ClickSwitch ==
    /\ isConnected
    /\ chainId # ArbitrumId
    /\ ~isChainSwitching
    /\ isChainSwitching' = TRUE
    /\ UNCHANGED <<formVars, isConnected, chainId, txStatus, txCall,
                   submitLog, nPlans, rejected, guard>>
    /\ NoCommit("wallet")

\* The wallet answers a switchChain request: it switches, or it refuses.
switchChainSettled(ok) ==
    /\ isChainSwitching
    /\ isChainSwitching' = FALSE
    /\ chainId' = IF ok THEN ArbitrumId ELSE chainId
    /\ guard' = IF guard.request # "pending" THEN guard
                ELSE [guard EXCEPT !.request = IF ok THEN "switched"
                                               ELSE "refused"]
    /\ UNCHANGED <<formVars, isConnected, txStatus, txCall, submitLog, nPlans,
                   rejected>>
    /\ NoCommit("wallet")

SwitchSettles == \E ok \in BOOLEAN : switchChainSettled(ok)

\* The user changes the network in the wallet itself.
ChainChanged ==
    /\ \E c \in Chains \ {chainId} : chainId' = c
    /\ UNCHANGED <<formVars, isConnected, isChainSwitching, txStatus, txCall,
                   submitLog, nPlans, rejected, guard>>
    /\ NoCommit("wallet")

\* ------------------------------------------------------------------- Next
Next ==
    \/ TypeInput
    \/ SubmitForm
    \/ AgentResponds
    \/ ClickApprove
    \/ sendTransactionOnSuccess
    \/ sendTransactionOnError
    \/ ReceiptObserved
    \/ ClickReject
    \/ Connect
    \/ Disconnect
    \/ ClickSwitch
    \/ SwitchSettles
    \/ ChainChanged

Spec == Init /\ [][Next]_vars

\* ------------------------------------------------ the handler called as such
\* handleSubmit called whatever the `disabled` attributes of the form say (a
\* submit event that does not come from the rendered controls): its own
\* guards decide.  The steps are those from an instruction to the wallet call
\* of an approved step, with the wallet's connection and network changes.
NextHandlers ==
    \/ TypeInput
    \/ handleSubmit
    \/ AgentResponds
    \/ ClickApprove
    \/ sendTransactionOnSuccess
    \/ Connect
    \/ Disconnect
    \/ ClickSwitch
    \/ SwitchSettles
    \/ ChainChanged

SpecHandlers == Init /\ [][NextHandlers]_vars

\* ------------------------------------------- the run of a co-operative user
\* The user sends an instruction only while no plan is pending.
SubmitWhenIdle == pendingTransaction = NoPlan /\ SubmitForm

\* The steps of a run in which the user never rejects, the wallet returns a
\* hash for every call and stays connected.
NextFair ==
    \/ TypeInput
    \/ SubmitWhenIdle
    \/ AgentResponds
    \/ ClickApprove
    \/ sendTransactionOnSuccess
    \/ ReceiptObserved
    \/ Connect
    \/ ClickSwitch
    \/ SwitchSettles

\* The user approves whenever the button stays enabled, the wallet answers
\* every call with a hash and every watched hash is eventually confirmed.
Fairness ==
    /\ WF_vars(ClickApprove)
    /\ WF_vars(sendTransactionOnSuccess)
    /\ WF_vars(ReceiptObserved)

SpecFair == Init /\ [][NextFair]_vars /\ Fairness

\* ------------------------------------------------- the calls of the codec
\* parseTokenAmount(amount, decimals)
CallParse ==
    /\ codec.op = "input"
    /\ codec' = [codec EXCEPT
                    !.op = "parseTokenAmount",
                    !.result = parseTokenAmount(codec.amount, codec.decimals)]
    /\ UNCHANGED <<chatVars, proxy>>

\* formatTokenAmount(amount, decimals), the amount given as a string
CallFormat ==
    /\ codec.op = "input"
    /\ \E divisor \in Pow10Number(codec.decimals) :
           codec' = [codec EXCEPT
                        !.op = "formatTokenAmount",
                        !.divisor = divisor,
                        !.result = formatTokenAmountOfString(
                                       codec.amount, codec.decimals, divisor)]
    /\ UNCHANGED <<chatVars, proxy>>

\* formatTokenAmount(parseTokenAmount(amount, decimals), decimals)
CallParseThenFormat ==
    /\ codec.op = "input"
    /\ \E divisor \in Pow10Number(codec.decimals) :
           LET base == parseTokenAmount(codec.amount, codec.decimals)
           IN  codec' = [codec EXCEPT
                            !.op = "parseThenFormat",
                            !.divisor = divisor,
                            !.result =
                                IF base.ok
                                THEN Return(formatTokenAmount(
                                         base.val, codec.decimals, divisor))
                                ELSE Throw]
    /\ UNCHANGED <<chatVars, proxy>>

\* parseTokenAmount(formatTokenAmount(amount, decimals), decimals), the amount
\* given as a BigInt
CallFormatThenParse ==
    /\ codec.op = "input"
    /\ MatchesDigits(codec.amount)
    /\ \E divisor \in Pow10Number(codec.decimals) :
           codec' = [codec EXCEPT
                        !.op = "formatThenParse",
                        !.divisor = divisor,
                        !.result =
                            parseTokenAmount(
                                formatTokenAmount(BigIntOf(codec.amount).val,
                                                  codec.decimals, divisor),
                                codec.decimals)]
    /\ UNCHANGED <<chatVars, proxy>>

\* isValidTokenAmount(amount, decimals)
CallIsValid ==
    /\ codec.op = "input"
    /\ codec' = [codec EXCEPT
                    !.op = "isValidTokenAmount",
                    !.result =
                        Return(isValidTokenAmount(codec.amount,
                                                  codec.decimals))]
    /\ UNCHANGED <<chatVars, proxy>>

\* formatTransactionData(rawTransactionData)
CallFormatTransactionData ==
    /\ codec.op = "preview"
    /\ codec' = [codec EXCEPT
                    !.op = "formatTransactionData",
                    !.result = formatTransactionData(RawTransactionData(codec))]
    /\ UNCHANGED <<chatVars, proxy>>

\* handleSubmit's lines 439-451: the txPreview is normalized, summarized and
\* stored as the pending plan.  The result holds the stored data and the
\* summary shown.
CallSummarizeAccepted ==
    /\ codec.op = "preview"
    /\ LET formattedTransactionData ==
               formatTransactionData(RawTransactionData(codec))
           summary == createTransactionSummary(formattedTransactionData.val)
       IN  codec' = [codec EXCEPT
                        !.op = "createTransactionSummary",
                        !.result =
                            IF formattedTransactionData.ok /\ summary.ok
                            THEN Return([data |-> formattedTransactionData.val,
                                         summary |-> summary.val])
                            ELSE Throw]
    /\ UNCHANGED <<chatVars, proxy>>

NextCodec ==
    \/ CallParse
    \/ CallFormat
    \/ CallParseThenFormat
    \/ CallFormatThenParse
    \/ CallIsValid
    \/ CallFormatTransactionData
    \/ CallSummarizeAccepted

\* One call of a tokenUtils function on arguments drawn from the samples; the
\* component is not involved.
InitCodec ==
    /\ InitChat
    /\ ~isConnected
    /\ chainId = ArbitrumId
    /\ proxy = NoRequest
    /\ codec \in CodecInputs \cup PreviewInputs

SpecCodec == InitCodec /\ [][NextCodec]_vars

\* ------------------------------------------------- the steps of the route
\* The route's response: the request is served.
Respond(r) == [proxy EXCEPT !.pc = "done", !.response = r]

\* POST up to the settling of `await req.json()`: a body that is not JSON
\* rejects into the catch block.
POST_ReadBody ==
    /\ proxy.pc = "start"
    /\ proxy' = IF proxy.body.kind = "invalid"
                THEN Respond(FailedResponse)
                ELSE [proxy EXCEPT !.pc = "body"]
    /\ UNCHANGED <<chatVars, codec>>

\* POST from the destructuring of the body to the call of fetch: null cannot
\* be destructured (a TypeError, caught), a number can and has no field.
POST_Validate ==
    /\ proxy.pc = "body"
    /\ proxy' =
           IF proxy.body.kind = "null"
           THEN Respond(FailedResponse)
           ELSE IF Falsy(proxy.body.instruction)
                   \/ Falsy(proxy.body.userAddress)
           THEN Respond(MissingResponse)
           ELSE [proxy EXCEPT !.pc = "fetch", !.called = TRUE]
    /\ UNCHANGED <<chatVars, codec>>

\* The fetch of the external agent settles: a rejection and a status that is
\* not OK both end in the catch block.
POST_AgentSettles ==
    /\ proxy.pc = "fetch"
    /\ \E outcome \in AgentOutcomes :
           proxy' =
               IF outcome.settled = "rejected" \/ outcome.status # 200
               THEN [Respond(FailedResponse) EXCEPT !.agent = outcome]
               ELSE [proxy EXCEPT !.pc = "json", !.agent = outcome]
    /\ UNCHANGED <<chatVars, codec>>

\* POST from the settling of `await response.json()` to its return.
POST_ReadAgent ==
    /\ proxy.pc = "json"
    /\ LET data == responseJson(proxy.agent.body)
       IN  proxy' = IF data.ok
                    THEN Respond(JsonResponse(data.val))
                    ELSE Respond(FailedResponse)
    /\ UNCHANGED <<chatVars, codec>>

NextProxy ==
    \/ POST_ReadBody
    \/ POST_Validate
    \/ POST_AgentSettles
    \/ POST_ReadAgent

\* One request served by the route; the component and the codec are not
\* involved.
InitProxy ==
    /\ InitChat
    /\ ~isConnected
    /\ chainId = ArbitrumId
    /\ codec = NoCodecCall
    /\ proxy \in ProxyInputs

SpecProxy == InitProxy /\ [][NextProxy]_vars

\* ------------------------------------------------------------- type check
TypeOK ==
    /\ inputValue \in {"", "Supply 0.1 USDC"}
    /\ isLoading \in BOOLEAN
    /\ inFlight \in Nat
    /\ pendingTransaction \in [id : 0..MaxPlans, txPlan : TxPlans]
    /\ currentTxIndex \in 0..MaxLen
    /\ txHash \in 0..MaxSubmits
    /\ txStatus \in {"idle", "pending", "success", "error"}
    /\ confirmed \subseteq 1..MaxSubmits
    /\ Len(submitLog) <= MaxSubmits
    /\ nPlans \in 0..MaxPlans

\* ------------------------------------------------- reading the history
\* The hash of a call is its place in submitLog.
Calls == 1..Len(submitLog)
\* Step i of plan p was handed to the wallet and a hash came back.
SentCalls(p, i) ==
    {k \in Calls : /\ submitLog[k].plan = p
                   /\ submitLog[k].step = i
                   /\ submitLog[k].status = "sent"}
\* The confirmation of a hash of step i of plan p has been observed.
StepConfirmed(p, i) == SentCalls(p, i) \cap confirmed # {}
\* The submitted steps of plan p whose confirmation has not been observed.
Unconfirmed(p) ==
    {k \in Calls : /\ submitLog[k].plan = p
                   /\ submitLog[k].status = "sent"
                   /\ k \notin confirmed}
\* The step just taken is a sendTransaction call of handleTransactionApprove.
JustSubmitted == lastEvent.type = "submit"
\* The call the step just taken made.
LastCall == submitLog[Len(submitLog)]

\* ------------------------------------------------------------ the claims

\* C1 (as stated): a sendTransaction call for step i+1 of a plan is made only
\* after the confirmation of the hash of step i of that plan was observed.
C1_NextStepOnlyAfterConfirmation ==
    (JustSubmitted /\ LastCall.step > 0)
        => StepConfirmed(LastCall.plan, LastCall.step - 1)

\* C2 (as stated): at most one submitted step of the active plan is
\* unconfirmed, and no sendTransaction call is made while a submitted step of
\* the same plan still awaits its confirmation.
C2_AtMostOneInFlight ==
    /\ pendingTransaction # NoPlan
           => Cardinality(Unconfirmed(pendingTransaction.id)) <= 1
    /\ JustSubmitted
           => Unconfirmed(LastCall.plan) \ {Len(submitLog)} = {}

\* C3 (as stated): the effect clears the plan (Completed) only on the
\* confirmation of the final step, every step of the plan having been
\* submitted and confirmed.
C3_CompletedOnlyAfterFinalStep ==
    lastEvent.effect = "completed"
        => /\ lastEvent.hash \in SentCalls(lastEvent.plan.id,
                                           Len(lastEvent.plan.txPlan) - 1)
           /\ \A i \in 0..(Len(lastEvent.plan.txPlan) - 1) :
                  StepConfirmed(lastEvent.plan.id, i)

\* C4 (as stated): an agent response handled while a plan is pending neither
\* replaces the pending plan nor resets its step index.
C4_NoPlanAcceptedWhileActive ==
    (lastEvent.type = "planReceived" /\ lastEvent.plan # NoPlan)
        => /\ pendingTransaction = lastEvent.plan
           /\ currentTxIndex = lastEvent.step

\* C5 (as stated): a failed wallet submission resets the execution state to
\* Idle, and no step of that plan is submitted after the failure.
C5_SubmissionFailureAborts ==
    /\ lastEvent.type = "walletError"
           => pendingTransaction = NoPlan /\ currentTxIndex = 0
    /\ \A j, k \in Calls :
           (j < k /\ submitLog[j].status = "failed")
               => submitLog[k].plan # submitLog[j].plan

\* C6 (as stated): no sendTransaction call is made while the wallet is
\* disconnected or on a network other than Arbitrum.
C6_SubmitOnlyConnectedOnArbitrum ==
    JustSubmitted => isConnected /\ chainId = ArbitrumId

\* C7: rejecting a plan that awaits the approval of step 0 (no step of it was
\* submitted) leaves no pending plan and step index 0, and no sendTransaction
\* call is ever made for that plan, before or after.
C7_RejectAtStepZero ==
    /\ (lastEvent.type = "reject" /\ lastEvent.plan.id \in rejected)
           => pendingTransaction = NoPlan /\ currentTxIndex = 0
    /\ \A p \in rejected :
           /\ pendingTransaction.id # p
           /\ txCall.plan.id # p
           /\ \A k \in Calls : submitLog[k].plan # p

\* C7 witness: a plan with steps, none submitted, has just been rejected.
C7_Witness ==
    /\ lastEvent.type = "reject"
    /\ lastEvent.plan.id \in rejected
    /\ lastEvent.step = 0
    /\ Len(lastEvent.plan.txPlan) >= 2

\* C8 (as stated): once a step of the active plan has been submitted, a
\* reject leaves the pending plan, the step index and the last hash unchanged.
C8_RejectAfterSubmitIsNoop ==
    (/\ lastEvent.type = "reject"
     /\ \E k \in Calls : /\ submitLog[k].plan = lastEvent.plan.id
                         /\ submitLog[k].status = "sent")
        => /\ pendingTransaction = lastEvent.plan
           /\ currentTxIndex = lastEvent.step
           /\ txHash = lastEvent.hash

\* C9 (as stated): when the confirmation of step i of the pending plan is
\* observed and i+1 < len, the handling of that confirmation submits step
\* i+1: the wallet call for it is pending with no approve action in between.
C9_AutoAdvanceOnConfirmation ==
    (/\ lastEvent.type = "confirm"
     /\ lastEvent.plan # NoPlan
     /\ submitLog[lastEvent.hash].plan = lastEvent.plan.id
     /\ submitLog[lastEvent.hash].step + 1 < Len(lastEvent.plan.txPlan))
        => /\ isTxPending
           /\ LastCall.plan = lastEvent.plan.id
           /\ LastCall.step = submitLog[lastEvent.hash].step + 1

\* C10 (as stated): the steps of a plan are handed to the wallet in array
\* order from index 0, none skipped and none out of order.
C10_StepsInArrayOrder ==
    \A k \in Calls :
        /\ submitLog[k].step = 0
           \/ \E j \in 1..(k - 1) : /\ submitLog[j].plan = submitLog[k].plan
                                    /\ submitLog[j].step = submitLog[k].step - 1
        /\ \A j \in 1..(k - 1) :
               submitLog[j].plan = submitLog[k].plan
                   => submitLog[j].step <= submitLog[k].step

\* C11 (as stated): whenever a plan is pending, the step index is a position
\* of its txPlan: 0 <= currentTxIndex < txPlan.length.
C11_StepIndexInRange ==
    pendingTransaction # NoPlan
        => /\ 0 <= currentTxIndex
           /\ currentTxIndex < Len(pendingTransaction.txPlan)

\* Every step of the n-step plan p was handed to the wallet and got a hash.
AllStepsSubmitted(p, n) == \A i \in 0..(n - 1) : SentCalls(p, i) # {}
\* Plan 1 is pending, has n steps and every `value` of it is well-formed.
FirstPlanPending(n) ==
    /\ pendingTransaction.id = 1
    /\ Len(pendingTransaction.txPlan) = n
    /\ \A i \in 1..n : ~BigIntThrows(pendingTransaction.txPlan[i].value)

\* C12 (as stated): in a run where the user approves and never rejects, every
\* wallet call returns a hash and every hash is eventually confirmed, an
\* accepted plan eventually has all its steps submitted and is then cleared
\* (Completed, then Idle).
C12_PlanEventuallyCompleted ==
    \A n \in 1..MaxSubmits :
        FirstPlanPending(n)
            ~> (AllStepsSubmitted(1, n) /\ pendingTransaction.id # 1)

\* The kinds of step a call of handleSubmit takes.
HandleSubmitEvents ==
    {"submitIgnored", "notConnected", "switchAndInstruct", "instruct"}

\* C13 (as stated): an instruction issued on another network than Arbitrum
\* makes one switchChain request, and no sendTransaction call is made for a
\* plan that comes from that instruction.
C13_SwitchOnlyNoSubmit ==
    /\ lastEvent.type = "switchAndInstruct"
           => isChainSwitching /\ guard.request = "pending"
    /\ guard.plan # 0 => \A k \in Calls : submitLog[k].plan # guard.plan

\* C14: a call of handleSubmit while the wallet is disconnected sends no agent
\* request (isLoading is not set), makes no switchChain request and leaves
\* the pending plan, the step index and the last hash as they were.
C14_DisconnectedInstructionIsInert ==
    [][(lastEvent'.type \in HandleSubmitEvents /\ ~isConnected)
          => UNCHANGED <<isLoading, isChainSwitching, guard,
                         pendingTransaction, currentTxIndex, txHash>>]_vars

\* C14 witness: an instruction was typed, the wallet got disconnected while a
\* plan was pending, and handleSubmit took its not-connected return.
C14_Witness ==
    /\ lastEvent.type = "notConnected"
    /\ ~isConnected
    /\ inputValue # ""
    /\ pendingTransaction # NoPlan

\* C15 (as stated): when the wallet refuses the switchChain request that
\* handleSubmit made for an instruction, that instruction is not in flight to
\* the agent and no plan was accepted from it.
C15_RefusedSwitchStopsInstruction ==
    guard.request = "refused" => ~isLoading /\ guard.plan = 0

\* ------------------------------------------------ reading a codec call
\* The parts of the amount string of the call, as parseTokenAmount splits it.
Parts == Split(codec.amount)
WholePart == Parts[1]
HasFraction == Len(Parts) >= 2
FractionalPart == IF HasFraction THEN Parts[2] ELSE <<>>
\* The digits of a string of digit characters.
Digits(s) == [i \in 1..Len(s) |-> DigitOf(s[i])]
\* 10^d.
PowerOfTen(d) == <<1>> \o Zeros(d)
\* The amount is a display string for d decimals: an integer part of digits
\* without superfluous leading zeros and, optionally, a fractional part of at
\* most d digits without trailing zeros.
IsDisplayString(d) ==
    /\ Len(Parts) <= 2
    /\ MatchesDigits(WholePart)
    /\ Len(WholePart) = 1 \/ WholePart[1] # "0"
    /\ HasFraction => /\ MatchesDigits(FractionalPart)
                      /\ Len(FractionalPart) <= d
                      /\ FractionalPart[Len(FractionalPart)] # "0"
\* The display string of base amount b for d decimals, read off the digits of
\* b: all but the last d, then the last d without their trailing zeros.
DisplayOf(b, d) ==
    LET p == PadLeft(b, Max(Len(b), d + 1))
        whole == Strip(SubSeq(p, 1, Len(p) - d))
        rest == StripTrailingZeros(BigIntToString(SubSeq(p, Len(p) - d + 1, Len(p))))
    IN  IF rest = <<>> THEN BigIntToString(whole)
        ELSE BigIntToString(whole) \o <<".">> \o rest

\* C16 (as stated, for an integer part without leading zeros): for every d
\* and every display string x with at most d fractional digits and no
\* trailing zero, formatTokenAmount(parseTokenAmount(x, d), d) is x.
C16_RoundTripDisplay ==
    (codec.op = "parseThenFormat" /\ IsDisplayString(codec.decimals))
        => codec.result = Return(codec.amount)

\* C17 (as stated): parseTokenAmount returns no value when the integer part,
\* or the fractional part if there is one, does not match ^\d+$.
C17_ParseRejectsNonDigits ==
    (/\ codec.op = "parseTokenAmount"
     /\ \/ ~MatchesDigits(WholePart)
        \/ HasFraction /\ ~MatchesDigits(FractionalPart))
        => ~codec.result.ok

\* C18: for a string with a digit integer part and a digit fractional part
\* longer than d, parseTokenAmount returns the number whose digits are the
\* integer part followed by the first d fractional digits (integerPart * 10^d
\* plus those digits): the excess digits are cut off, not rounded.
C18_ParseTruncates ==
    (/\ codec.op = "parseTokenAmount"
     /\ Len(Parts) = 2
     /\ MatchesDigits(WholePart)
     /\ MatchesDigits(FractionalPart)
     /\ Len(FractionalPart) > codec.decimals)
        => codec.result =
               Return(Strip(Digits(WholePart)
                            \o SubSeq(Digits(FractionalPart), 1,
                                      codec.decimals)))

\* C18 witness: parseTokenAmount("12.3456789", 6) returned 12345678.
C18_Witness ==
    /\ codec.op = "parseTokenAmount"
    /\ codec.amount = <<"1", "2", ".", "3", "4", "5", "6", "7", "8", "9">>
    /\ codec.decimals = 6
    /\ codec.result = Return(<<1, 2, 3, 4, 5, 6, 7, 8>>)

\* C19 (as stated): for every base amount and every d, formatTokenAmount
\* returns the quotient by 10^d, followed, when the remainder is not zero, by
\* "." and the remainder padded to d digits without its trailing zeros.
C19_FormatIsQuotientAndRemainder ==
    (codec.op = "formatTokenAmount" /\ MatchesDigits(codec.amount))
        => codec.result =
               Return(DisplayOf(Strip(Digits(codec.amount)), codec.decimals))

\* C20 (as stated): for every digit string w and every d, parseTokenAmount
\* returns w * 10^d exactly, and formatTokenAmount divides by exactly 10^d.
C20_CodecIsExact ==
    /\ (codec.op = "parseTokenAmount" /\ MatchesDigits(codec.amount))
           => codec.result =
                  Return(Strip(Digits(codec.amount) \o Zeros(codec.decimals)))
    /\ (codec.op = "formatTokenAmount" /\ codec.result.ok)
           => codec.divisor = PowerOfTen(codec.decimals)

-----------------------------------------------------------------------------
\* C23: an agent response whose plan is malformed is never accepted: in every
\* reachable state a pending plan has at least one step.
C23_PendingPlanHasAStep ==
    pendingTransaction # NoPlan => Len(pendingTransaction.txPlan) >= 1

\* The events of handleSubmit's response part in which the agent request
\* failed (the fetch rejected or answered non-OK) or produced no plan (among
\* them every response whose `success` is false).
AgentFailureEvents == {"agentFailed", "agentText"}

\* C24: when the agent request fails or returns a non-success result, no plan
\* is accepted and the plan, the step index and the last hash are what they
\* were before; no request is in flight afterwards (nothing is retried) and
\* no submit call is made.
C24_AgentFailureLeavesExecution ==
    [][lastEvent'.type \in AgentFailureEvents /\ isLoading /\ ~isLoading'
           => UNCHANGED <<pendingTransaction, currentTxIndex, txHash, nPlans,
                          submitLog, txStatus, txCall>>]_vars

\* A failed agent request has returned while a plan was in progress.
C24_Witness ==
    /\ lastEvent.type = "agentFailed"
    /\ pendingTransaction # NoPlan
    /\ txHash # NoHash
    /\ ~isLoading

\* The plan the confirmation effect has just acted on: the plan of the
\* render in which it ran, which is the accepted plan when the render was
\* caused by an acceptance.
EffectPlanId ==
    IF lastEvent.type = "planReceived" THEN nPlans ELSE lastEvent.plan.id

\* C25: a confirmation of a hash submitted under an earlier plan never makes
\* a later plan reported confirmed or cleared: whenever the confirmation
\* effect reports or clears a plan, the confirmed hash was submitted under
\* that plan.
C25_ConfirmationBelongsToPlan ==
    lastEvent.effect # "none"
        => submitLog[lastEvent.hash].plan = EffectPlanId

\* C26: whenever there is no pending plan the step index is 0 and the last
\* hash is none (rejection, submission failure and completion each reset the
\* plan, the index and the hash together).
C26_IdleIsReset ==
    pendingTransaction = NoPlan => currentTxIndex = 0 /\ txHash = NoHash

\* The events of handleTransactionApprove.
ApproveEvents == {"approveIgnored", "approveThrew", "submit"}

\* C27: an approve action taken with no pending plan, or with a step index
\* at or past the plan's length, makes no submit call and changes no state.
C27_ApproveOutOfRangeIsInert ==
    [][/\ lastEvent'.type \in ApproveEvents
       /\ \/ pendingTransaction = NoPlan
          \/ currentTxIndex >= Len(pendingTransaction.txPlan)
       => UNCHANGED <<pendingTransaction, currentTxIndex, txHash, txStatus,
                      txCall, submitLog, confirmed, rejected, nPlans, guard,
                      formVars, walletVars>>]_vars

\* Approve has been clicked on a plan whose step index is past its last step.
C27_Witness ==
    /\ lastEvent.type = "approveIgnored"
    /\ pendingTransaction # NoPlan
    /\ currentTxIndex >= Len(pendingTransaction.txPlan)

\* The amount is a decimal numeral: digits, optionally followed by one '.'
\* and digits.
IsDecimalNumeral ==
    /\ Len(Parts) <= 2
    /\ MatchesDigits(WholePart)
    /\ HasFraction => MatchesDigits(FractionalPart)
\* The number a decimal numeral denotes is greater than 1,000,000.
ValueExceedsMillion ==
    \/ Less(Million, Strip(Digits(WholePart)))
    \/ /\ Strip(Digits(WholePart)) = Million
       /\ \E i \in 1..Len(FractionalPart) : FractionalPart[i] # "0"

\* C21: formatTransactionData replaces the amount by the display string of
\* its integer part, for the decimals of the token, exactly when the number
\* the amount denotes is greater than 1,000,000, and returns the amount as it
\* is otherwise; the token name, the action, the chain id and the plan are
\* returned unchanged.
C21_NormalizeAboveMillion ==
    (codec.op = "formatTransactionData" /\ IsDecimalNumeral)
        => codec.result =
               Return([RawTransactionData(codec) EXCEPT !.amount =
                          IF ValueExceedsMillion
                          THEN DisplayOf(Strip(Digits(WholePart)),
                                         getTokenInfo(codec.tokenName).decimals)
                          ELSE codec.amount])

\* C22: the summary of a TransactionData whose amount has been normalized is
\* the capitalized action, the amount as stored in the accepted plan and the
\* symbol of the token, separated by single spaces.
C22_SummaryShowsStoredAmount ==
    (codec.op = "createTransactionSummary" /\ codec.result.ok)
        => codec.result.val.summary =
               Capitalize(codec.result.val.data.action) \o <<" ">>
               \o codec.result.val.data.amount \o <<" ">>
               \o getTokenInfo(codec.tokenName).symbol

\* C28: for every base amount b and every d, parsing the display string of b
\* for d decimals gives b back.
C28_RoundTripBase ==
    codec.op = "formatThenParse"
        => codec.result = Return(Strip(Digits(codec.amount)))

\* C29: isValidTokenAmount is true exactly for digits optionally followed by
\* one '.' and between 1 and d digits, and false (never an exception) for
\* every other string.
C29_ValidAmountGrammar ==
    codec.op = "isValidTokenAmount"
        => codec.result =
               Return(/\ Len(Parts) <= 2
                      /\ MatchesDigits(WholePart)
                      /\ HasFraction
                             => /\ MatchesDigits(FractionalPart)
                                /\ Len(FractionalPart) <= codec.decimals)

-----------------------------------------------------------------------------
\* The request carries no instruction or no user address.
FieldMissing ==
    Falsy(proxy.body.instruction) \/ Falsy(proxy.body.userAddress)
\* The call of the external agent failed: it threw, or it answered with a
\* status that is not OK or with a body that is not JSON.
AgentCallFailed ==
    \/ proxy.agent.settled = "rejected"
    \/ proxy.agent.status # 200
    \/ ~proxy.agent.body.isJson

\* C30: the route answers 400, without contacting the external agent, when
\* the instruction or the user address is missing; it answers 500 when the
\* agent returns a status that is not OK or the call throws; otherwise it
\* returns the agent's JSON body unchanged.
C30_ProxyResponses ==
    proxy.pc = "done"
        => IF FieldMissing
           THEN proxy.response.status = 400 /\ ~proxy.called
           ELSE IF AgentCallFailed
           THEN proxy.response.status = 500
           ELSE proxy.response = [status |-> 200, body |-> proxy.agent.body.value]

-----------------------------------------------------------------------------
\* C31: at most one agent request is outstanding at any time, and isLoading
\* is set exactly while one is: a call of handleSubmit made while a request
\* is in flight sends none, and every outcome of a request (a plan, a text, a
\* failure) clears isLoading, so that a later instruction is accepted again.
C31_OneRequestAtATime ==
    /\ inFlight <= 1
    /\ isLoading <=> inFlight = 1

\* handleSubmit has been called, and has returned at once, while the request
\* of a second instruction was in flight, the first having been answered
\* with a plan.
C31_Witness ==
    /\ lastEvent.type = "submitIgnored"
    /\ isLoading
    /\ inFlight = 1
    /\ nPlans >= 1


=============================================================================
